---- MODULE Spec2Model ----
(***************************************************************************)
(* Model of the legal chatbot's index cache, staleness check and query     *)
(* routing (src/week8/legal_chatbot_main.py, src/week8/document_processor  *)
(* .py).  The disk (documents folder, ./storage, ./index_cache.pkl), the   *)
(* wall clock and one LegalChatbot instance are the state.                 *)
(***************************************************************************)
EXTENDS Integers, Sequences, FiniteSets, TLC

\* ---------------------------------------------------------------- bounds
\* Largest wall-clock value (file and manifest modification times).
MaxTime == 2
\* Largest number of corpus reads (index builds started) in one behaviour.
MaxBuilds == 2

\* The file names that may appear in the documents folder, in listing order.
FileOrder == <<"a.txt", "b.txt">>
FileNames == {FileOrder[i] : i \in 1..Len(FileOrder)}

\* A file that does not exist has no modification time.
Absent == -1
\* The three stores StorageContext.persist writes, in the order it writes.
StoreNames == <<"docstore", "index_store", "vector_store">>
NumStores == Len(StoreNames)

\* self.index = None; also an artifact that is not on disk.
NoIndex == [id |-> 0, docs |-> {}]
\* An artifact whose write was interrupted (truncated file).
PartialStore == [id |-> -1, docs |-> {}]

VARIABLES
    clock,          \* wall clock
    dirExists,      \* os.path.exists("documents")
    files,          \* file name -> modification time, or Absent
    storageDir,     \* os.path.exists("./storage")
    stores,         \* the three persisted artifacts, by position
    manifest,       \* modification time of ./index_cache.pkl, or Absent
    manifestBuild,  \* history: id of the build whose save wrote the manifest
    index,          \* self.index
    queryEngine,    \* self.query_engine (the index it was set up on)
    pc,             \* position of the chatbot inside initialize()
    callForce,      \* force_rebuild of the initialize() in progress / last
    dirAtCall,      \* history: the documents folder existed at that call
    initSource,     \* how the current/last initialize got its index
    initResult,     \* outcome of the last initialize()
    embedCalls,     \* calls to from_documents (embedding) in this initialize
    loaderCalls,    \* calls to process_all_documents in this initialize
    documents,      \* local `documents` of build_index
    storePos,       \* which store persist() writes next
    nextBuild,      \* id the next corpus read gets
    dirtyUpTo,      \* history: builds <= this read a corpus changed since
    initDone,       \* history: an initialize succeeded on this instance
    loadFailed,     \* load_cached_index returned False in this initialize
    saveResult,     \* save_index_cache of this initialize: how it ended
    probe,          \* one call of _documents_changed: its inputs and result
    question,       \* the last query's question
    qInput,         \* what the collaborators did during the last query
    qOutcome,       \* "none", "raised" (to the caller) or "returned"
    answer,         \* what the last query returned
    needsWeb,       \* should_search_web of the last query, once evaluated
    prompt,         \* the prompt handed to llm.complete
    calls,          \* the collaborator calls of the last query, in order
    retrieveK,      \* similarity_top_k of the last query's retriever
    webCall,        \* one call of get_web_context: its input and result
    sanitizeCall,   \* one clean-up of a completion: its input and result
    loaderCall,     \* one call of process_all_documents: folder and result
    sessionChatbot, \* st.session_state.chatbot, or none
    chatHistory,    \* st.session_state.chat_history
    uiInitCalls,    \* history: chatbot.initialize() calls made by the UI
    uiRebuildPressed, \* history: a rebuild button was pressed this session
    uiQueried,      \* history: the chatbot the UI last called query on
    uiPage,         \* what the last script run rendered
    head,           \* LinkedList.head: a node id, or 0 for None
    heap,           \* the Node objects allocated so far: id -> data, next
    abstractSeq,    \* history: the sequence the list stands for
    lastOp          \* the last LinkedList operation and how it ended

coreVars == <<clock, dirExists, files, storageDir, stores, manifest,
              manifestBuild, index, queryEngine, pc, callForce, dirAtCall,
              initSource,
              initResult, embedCalls, loaderCalls, documents, storePos,
              nextBuild, dirtyUpTo, initDone, loadFailed, saveResult>>

queryVars == <<question, qInput, qOutcome, answer, needsWeb, prompt, calls,
               retrieveK>>

\* The single calls of the pure functions.
pureVars == <<probe, webCall, sanitizeCall, loaderCall>>

\* The Streamlit session of app.py.
uiVars == <<sessionChatbot, chatHistory, uiInitCalls, uiRebuildPressed,
            uiQueried, uiPage>>

\* The linked list of week 2.
listVars == <<head, heap, abstractSeq, lastOp>>

\* ------------------------------------------------------- _documents_changed
\* One directory entry as os.listdir / os.path.isfile / getmtime see it.
Entry(isfile, mtime) == [isfile |-> isfile, mtime |-> mtime]

\* A comparison that also counts a file exactly as old as the manifest.
NotOlderThan(mtime, cache_time) == mtime >= cache_time

\* os.path.getmtime(file_path) > cache_time
NewerThan(mtime, cache_time) == mtime > cache_time

\* The for loop of _documents_changed over the listing, from position i.
RECURSIVE AnyNewer(_, _, _)
AnyNewer(listing, cache_time, i) ==
    IF i > Len(listing) THEN FALSE
    ELSE IF listing[i].isfile /\ NewerThan(listing[i].mtime, cache_time)
         THEN TRUE
    ELSE AnyNewer(listing, cache_time, i + 1)

DocumentsChanged(cache, dir, listing) ==
    IF cache = Absent THEN TRUE
    ELSE IF ~dir THEN TRUE
    ELSE AnyNewer(listing, cache, 1)

\* os.listdir("documents") of the current state: every entry a regular file.
RECURSIVE ListDir(_)
ListDir(i) ==
    IF i > Len(FileOrder) THEN <<>>
    ELSE IF files[FileOrder[i]] # Absent
         THEN <<Entry(TRUE, files[FileOrder[i]])>> \o ListDir(i + 1)
         ELSE ListDir(i + 1)

IsStale == DocumentsChanged(manifest, dirExists, ListDir(1))

\* ------------------------------------------------------------ construction
\* LegalChatbot(): index and query engine unset; DocumentProcessor() creates
\* the documents folder when it is missing.
NewChatbot ==
    /\ pc = "idle"
    /\ index' = NoIndex
    /\ queryEngine' = NoIndex
    /\ dirExists' = TRUE
    /\ initDone' = FALSE
    /\ initSource' = "none"
    /\ initResult' = "none"
    /\ callForce' = FALSE
    /\ dirAtCall' = TRUE
    /\ embedCalls' = 0
    /\ loaderCalls' = 0
    /\ loadFailed' = FALSE
    /\ saveResult' = "none"
    /\ UNCHANGED <<pureVars, uiVars, listVars, queryVars>>
    /\ UNCHANGED <<clock, files, storageDir, stores, manifest, manifestBuild,
                   pc, documents, storePos, nextBuild, dirtyUpTo>>

\* -------------------------------------------------------- load_cached_index
\* Every artifact is on disk and whole.
StoresReadable ==
    \A s \in 1..NumStores : stores[s] # NoIndex /\ stores[s] # PartialStore

\* The artifacts were written by one build.
StoresSameBuild ==
    \A s \in 1..NumStores : stores[s].id = stores[1].id

\* What load_index_from_storage reconstructs: the index structure of the
\* index store over the document records of the docstore.
LoadedIndex == [id |-> stores[2].id, docs |-> stores[1].docs]

\* A loader that reports success whatever is on disk.
LoadOutcomesTrusting == {TRUE}

\* The outcomes load_cached_index can have: True (index loaded) or False.
\* Readable artifacts of one build load; a missing storage directory or a
\* missing/truncated artifact does not; readable artifacts of different
\* builds may or may not (the library decides).
LoadOutcomes ==
    IF ~storageDir \/ ~StoresReadable THEN {FALSE}
    ELSE IF StoresSameBuild THEN {TRUE}
    ELSE {TRUE, FALSE}

\* --------------------------------------------------------------- initialize
\* build_index line 119: `not force_rebuild and not self._documents_changed()`.
TriesCache(force) == ~force /\ ~IsStale

\* A build_index that returns when the cache it tried does not load.
AfterCacheBranchGivingUp(tried, loaded) ==
    IF loaded THEN "setup" ELSE IF tried THEN "idle" ELSE "process"

\* build_index lines 119-125: a loaded cache returns to initialize; a cache
\* that was not tried or did not load falls through to the corpus read.
AfterCacheBranch(tried, loaded) ==
    IF loaded THEN "setup" ELSE "process"

\* initialize(force_rebuild) up to the point where build_index either has
\* loaded the cache or is about to read the corpus.
StartInitialize(force) ==
    /\ pc = "idle"
    /\ callForce' = force
    /\ dirAtCall' = dirExists
    /\ embedCalls' = 0
    /\ loaderCalls' = 0
    /\ initResult' = "running"
    /\ saveResult' = "none"
    /\ \E loaded \in (IF TriesCache(force) THEN LoadOutcomes ELSE {FALSE}) :
          /\ loadFailed' = (TriesCache(force) /\ ~loaded)
          /\ pc' = AfterCacheBranch(TriesCache(force), loaded)
          /\ IF loaded
             THEN /\ index' = LoadedIndex
                  /\ initSource' = "cache"
             ELSE /\ nextBuild <= MaxBuilds
                  /\ index' = index
                  /\ initSource' = "build"
    /\ UNCHANGED <<pureVars, uiVars, listVars, queryVars>>
    /\ UNCHANGED <<clock, dirExists, files, storageDir, stores, manifest,
                   manifestBuild, queryEngine, documents, storePos, nextBuild,
                   dirtyUpTo, initDone>>

\* rebuild_index: initialize(force_rebuild=True).
RebuildIndex == StartInitialize(TRUE)

\* process_all_documents: one Document per file of the folder; an absent
\* folder gives the empty list.
ProcessAllDocuments ==
    IF ~dirExists THEN {}
    ELSE {f \in FileNames : files[f] # Absent}

\* build_index lines 125-128: read the corpus, raise ValueError when empty.
ProcessDocuments ==
    /\ pc = "process"
    /\ loaderCalls' = loaderCalls + 1
    /\ IF ProcessAllDocuments = {}
       THEN /\ pc' = "idle"
            /\ initResult' = "NoDocuments"
            /\ UNCHANGED <<documents, nextBuild>>
       ELSE /\ pc' = "embed"
            /\ documents' = [id |-> nextBuild, docs |-> ProcessAllDocuments]
            /\ nextBuild' = nextBuild + 1
            /\ UNCHANGED initResult
    /\ UNCHANGED <<pureVars, uiVars, listVars, queryVars, loadFailed,
                   saveResult>>
    /\ UNCHANGED <<clock, dirExists, files, storageDir, stores, manifest,
                   manifestBuild, index, queryEngine, callForce, dirAtCall,
                   initSource,
                   embedCalls, storePos, dirtyUpTo, initDone>>

\* A build that drops the index it had when the embedding fails.
FromDocumentsClearing(ok) == IF ok THEN documents ELSE NoIndex

\* build_index line 140: self.index is assigned when from_documents has
\* returned; when it raises, self.index keeps its value.
FromDocuments(ok) == IF ok THEN documents ELSE index

\* A save_index_cache whose failure leaves initialize.
AfterSaveFailureRaising == "idle"

\* save_index_cache lines 165-166: the except prints and returns, and
\* initialize goes on to setup_query_engine.
AfterSaveFailure == "setup"

\* build_index lines 133-144: VectorStoreIndex.from_documents embeds the
\* documents read; a provider error propagates out of initialize.
BuildVectorIndex ==
    /\ pc = "embed"
    /\ embedCalls' = embedCalls + 1
    /\ \E ok \in BOOLEAN :
          /\ index' = FromDocuments(ok)
          /\ IF ok
             THEN /\ pc' = "makedirs"
                  /\ UNCHANGED initResult
             ELSE /\ pc' = "idle"
                  /\ initResult' = "ProviderError"
    /\ UNCHANGED <<pureVars, uiVars, listVars, queryVars, loadFailed,
                   saveResult>>
    /\ UNCHANGED <<clock, dirExists, files, storageDir, stores, manifest,
                   manifestBuild, queryEngine, callForce, dirAtCall,
                   initSource,
                   loaderCalls, documents, storePos, nextBuild, dirtyUpTo,
                   initDone>>

\* save_index_cache lines 155-156; a failure is swallowed by the except.
MakeStorageDir ==
    /\ pc = "makedirs"
    /\ \E ok \in BOOLEAN :
          IF storageDir \/ ok
          THEN /\ storageDir' = TRUE
               /\ pc' = "persist"
               /\ storePos' = 1
               /\ saveResult' = saveResult
          ELSE /\ storageDir' = storageDir
               /\ pc' = AfterSaveFailure
               /\ storePos' = storePos
               /\ saveResult' = "failed"
    /\ UNCHANGED <<pureVars, uiVars, listVars, queryVars, loadFailed>>
    /\ UNCHANGED <<clock, dirExists, files, stores, manifest, manifestBuild,
                   index, queryEngine, callForce, dirAtCall, initSource,
                   initResult,
                   embedCalls, loaderCalls, documents, nextBuild, dirtyUpTo,
                   initDone>>

\* save_index_cache line 158: persist writes the artifacts one after the
\* other; a failed write leaves the artifact as it was or truncated, and the
\* except skips the rest of save_index_cache.
PersistStore ==
    /\ pc = "persist"
    /\ \/ /\ stores' = [stores EXCEPT ![storePos] = index]
          /\ IF storePos = NumStores
             THEN pc' = "manifest" /\ storePos' = 0
             ELSE pc' = "persist" /\ storePos' = storePos + 1
          /\ saveResult' = saveResult
       \/ /\ \E left \in {stores[storePos], PartialStore} :
                stores' = [stores EXCEPT ![storePos] = left]
          /\ pc' = AfterSaveFailure
          /\ storePos' = 0
          /\ saveResult' = "failed"
    /\ UNCHANGED <<pureVars, uiVars, listVars, queryVars, loadFailed>>
    /\ UNCHANGED <<clock, dirExists, files, storageDir, manifest,
                   manifestBuild, index, queryEngine, callForce, dirAtCall,
                   initSource,
                   initResult, embedCalls, loaderCalls, documents, nextBuild,
                   dirtyUpTo, initDone>>

\* save_index_cache lines 161-162: the manifest gets the current time; a
\* failure leaves it as it was when open() fails, and stamped when open()
\* has truncated the file and the write fails.
WriteManifest ==
    /\ pc = "manifest"
    /\ \E ok \in BOOLEAN, opened \in BOOLEAN :
          /\ ok => opened
          /\ IF opened
             THEN manifest' = clock /\ manifestBuild' = index.id
             ELSE UNCHANGED <<manifest, manifestBuild>>
          /\ saveResult' = IF ok THEN "saved" ELSE "manifest_failed"
          /\ pc' = IF ok THEN "setup" ELSE AfterSaveFailure
    /\ UNCHANGED <<pureVars, uiVars, listVars, queryVars, loadFailed>>
    /\ UNCHANGED <<clock, dirExists, files, storageDir, stores, index,
                   queryEngine, callForce, dirAtCall, initSource,
                   initResult, embedCalls,
                   loaderCalls, documents, storePos, nextBuild, dirtyUpTo,
                   initDone>>

\* setup_query_engine, then initialize returns.
SetupQueryEngine ==
    /\ pc = "setup"
    /\ pc' = "idle"
    /\ IF index = NoIndex
       THEN /\ initResult' = "IndexNotBuilt"
            /\ UNCHANGED <<queryEngine, initDone>>
       ELSE /\ queryEngine' = index
            /\ initResult' = "ok"
            /\ initDone' = TRUE
    /\ UNCHANGED <<pureVars, uiVars, listVars, queryVars, loadFailed,
                   saveResult>>
    /\ UNCHANGED <<clock, dirExists, files, storageDir, stores, manifest,
                   manifestBuild, index, callForce, dirAtCall, initSource,
                   embedCalls,
                   loaderCalls, documents, storePos, nextBuild, dirtyUpTo>>

\* -------------------------------------------------------------- environment
\* Every build that has read the corpus so far has read one that has since
\* changed.
AllBuildsDirty == nextBuild - 1

Tick ==
    /\ clock < MaxTime
    /\ clock' = clock + 1
    /\ UNCHANGED <<pureVars, uiVars, listVars, queryVars, loadFailed,
                   saveResult>>
    /\ UNCHANGED <<dirExists, files, storageDir, stores, manifest,
                   manifestBuild, index, queryEngine, pc, callForce, dirAtCall,
                   initSource, initResult, embedCalls, loaderCalls, documents,
                   storePos, nextBuild, dirtyUpTo, initDone>>

envFrame == <<pureVars, uiVars, listVars, queryVars, loadFailed,
              saveResult, clock,
              dirExists, storageDir, stores, manifest, manifestBuild,
              index, queryEngine, pc, callForce, dirAtCall, initSource,
              initResult,
              embedCalls, loaderCalls, documents, storePos, nextBuild,
              initDone>>

\* A file of the folder is rewritten now.
TouchFile(f) ==
    /\ dirExists /\ files[f] # Absent
    /\ files' = [files EXCEPT ![f] = clock]
    /\ dirtyUpTo' = AllBuildsDirty
    /\ UNCHANGED envFrame

\* A file is put into the folder; a copy may keep an earlier time.
AddFile(f, m) ==
    /\ dirExists /\ files[f] = Absent
    /\ files' = [files EXCEPT ![f] = m]
    /\ dirtyUpTo' = AllBuildsDirty
    /\ UNCHANGED envFrame

RemoveFile(f) ==
    /\ dirExists /\ files[f] # Absent
    /\ files' = [files EXCEPT ![f] = Absent]
    /\ dirtyUpTo' = AllBuildsDirty
    /\ UNCHANGED envFrame

\* The folder is removed with everything in it.
RemoveDir ==
    /\ dirExists
    /\ dirExists' = FALSE
    /\ files' = [f \in FileNames |-> Absent]
    /\ dirtyUpTo' = AllBuildsDirty
    /\ UNCHANGED <<pureVars, uiVars, listVars, queryVars, loadFailed,
                   saveResult>>
    /\ UNCHANGED <<clock, storageDir, stores, manifest, manifestBuild, index,
                   queryEngine, pc, callForce, dirAtCall, initSource,
                   initResult,
                   embedCalls, loaderCalls, documents, storePos, nextBuild,
                   initDone>>

\* ----------------------------------------------------------- storage damage
\* What happens to ./storage between two initializations: every variable but
\* the storage directory and its artifacts stays.
storageFrame == <<pureVars, uiVars, listVars, queryVars, clock, dirExists,
                  files, manifest,
                  manifestBuild, index, queryEngine, pc, callForce, dirAtCall,
                  initSource, initResult, embedCalls, loaderCalls, documents,
                  storePos, nextBuild, dirtyUpTo, initDone, loadFailed,
                  saveResult>>

\* One artifact of ./storage is deleted.
RemoveArtifact(s) ==
    /\ pc = "idle"
    /\ storageDir /\ stores[s] # NoIndex
    /\ stores' = [stores EXCEPT ![s] = NoIndex]
    /\ storageDir' = storageDir
    /\ UNCHANGED storageFrame

\* One artifact of ./storage becomes unreadable.
DamageArtifact(s) ==
    /\ pc = "idle"
    /\ storageDir /\ stores[s] # NoIndex /\ stores[s] # PartialStore
    /\ stores' = [stores EXCEPT ![s] = PartialStore]
    /\ storageDir' = storageDir
    /\ UNCHANGED storageFrame

\* ./storage is deleted with its artifacts; ./index_cache.pkl lies outside
\* it and stays.
RemoveStorageDir ==
    /\ pc = "idle"
    /\ storageDir
    /\ storageDir' = FALSE
    /\ stores' = [s \in 1..NumStores |-> NoIndex]
    /\ UNCHANGED storageFrame

\* ------------------------------------------------- a call of the staleness check
\* Largest number of entries of a probed directory listing.
MaxEntries == 2

NoProbe == [cache |-> Absent, dir |-> FALSE, listing |-> <<>>,
            result |-> "unset"]

Entries == {Entry(k, m) : k \in BOOLEAN, m \in 0..MaxTime}

\* The inputs _documents_changed can meet: a manifest or none, a folder or
\* none, and the folder's entries (regular files and others).
ProbeInputs ==
    {[cache |-> c, dir |-> d, listing |-> l, result |-> "unset"] :
        c \in {Absent} \cup (0..MaxTime), d \in BOOLEAN,
        l \in UNION {[1..n -> Entries] : n \in 0..MaxEntries}}

CallDocumentsChanged ==
    /\ probe.result = "unset"
    /\ probe' = [probe EXCEPT !.result =
                    IF DocumentsChanged(probe.cache, probe.dir, probe.listing)
                    THEN "stale" ELSE "fresh"]
    /\ UNCHANGED <<coreVars, uiVars, listVars, queryVars, webCall,
                   sanitizeCall, loaderCall>>

\* -------------------------------------------------------- should_search_web
\* Text is a sequence of one-character strings.
UpperCase == <<"A", "B", "C", "D", "E", "F", "G", "H", "I", "J", "K", "L", "M", "N", "O", "P", "Q", "R", "S", "T", "U", "V", "W", "X", "Y", "Z">>
LowerCase == <<"a", "b", "c", "d", "e", "f", "g", "h", "i", "j", "k", "l", "m", "n", "o", "p", "q", "r", "s", "t", "u", "v", "w", "x", "y", "z">>

\* str.lower() on one character.
LowerChar(c) ==
    IF \E i \in 1..Len(UpperCase) : UpperCase[i] = c
    THEN LowerCase[CHOOSE i \in 1..Len(UpperCase) : UpperCase[i] = c]
    ELSE c

Lower(text) == [i \in 1..Len(text) |-> LowerChar(text[i])]

\* Python's `keyword in text`.
Contains(keyword, text) ==
    \E i \in 1..(Len(text) - Len(keyword) + 1) :
        SubSeq(text, i, i + Len(keyword) - 1) = keyword

web_search_keywords ==
    <<<<"r", "e", "c", "e", "n", "t">>,
      <<"l", "a", "t", "e", "s", "t">>,
      <<"n", "e", "w">>,
      <<"2", "0", "2", "4">>,
      <<"2", "0", "2", "3">>,
      <<"c", "u", "r", "r", "e", "n", "t">>,
      <<"t", "o", "d", "a", "y">>,
      <<"r", "e", "c", "e", "n", "t", " ", "c", "a", "s", "e">>,
      <<"r", "e", "c", "e", "n", "t", " ", "j", "u", "d", "g", "m", "e", "n", "t">>,
      <<"l", "a", "t", "e", "s", "t", " ", "r", "u", "l", "i", "n", "g">>,
      <<"n", "e", "w", " ", "l", "a", "w">>,
      <<"c", "u", "r", "r", "e", "n", "t", " ", "s", "t", "a", "t", "u", "s">>,
      <<"u", "p", "d", "a", "t", "e", "d">>,
      <<"n", "o", "w">>,
      <<"p", "r", "e", "s", "e", "n", "t">>>>

\* A classifier that forgets to lower-case the question.
ShouldSearchWebCaseSensitive(q) ==
    \E k \in 1..Len(web_search_keywords) : Contains(web_search_keywords[k], q)

ShouldSearchWeb(q) ==
    LET question_lower == Lower(q)
    IN \E k \in 1..Len(web_search_keywords) :
          Contains(web_search_keywords[k], question_lower)

\* The questions asked and the texts the LLM answers with.
Questions ==
    {<<"L", "a", "t", "e", "s", "t", " ", "b", "a", "i", "l">>,
     <<"A", "r", "t", "i", "c", "l", "e", " ", "2", "1">>,
     <<"r", "e", "n", "e", "w", "a", "l">>,
     <<"b", "a", "i", "l", " ", "l", "a", "w">>}

CompletionTexts ==
    {<<"o", "k">>, <<"*", "*", "a", "*", "#", "b">>}

\* should_search_web of every question of the model, evaluated once.
NeedsWebOf == [q \in Questions |-> ShouldSearchWeb(q)]

\* ---------------------------------------------------------- get_web_context
\* Largest number of results the web search returns.
MaxResults == 3
\* search_results['results'][:2]
WebResultsUsed == 2

NoWebContext == [kind |-> "none", items |-> <<>>]
\* "No web search performed - using statutory documents only."
NoWebSearchPlaceholder == [kind |-> "no_search", items |-> <<>>]

\* What comprehensive_legal_search can do: raise, or return n results.
WebOutcomes ==
    {[raises |-> TRUE, n |-> 0]} \cup
    {[raises |-> FALSE, n |-> k] : k \in 0..MaxResults}

Min(a, b) == IF a < b THEN a ELSE b

\* A get_web_context without its try/except: the provider's error escapes.
GetWebContextUnguarded(web) ==
    IF web.raises
    THEN [raised |-> TRUE, ctx |-> NoWebContext]
    ELSE IF web.n = 0
    THEN [raised |-> FALSE, ctx |-> [kind |-> "no_results", items |-> <<>>]]
    ELSE [raised |-> FALSE,
          ctx |-> [kind |-> "results",
                   items |-> [i \in 1..Min(WebResultsUsed, web.n) |-> i]]]

\* get_web_context: the web-context string, by kind, with the numbers of the
\* results it lists; `raised` says whether an exception leaves the method.
GetWebContext(web) ==
    IF web.raises
    THEN [raised |-> FALSE, ctx |-> [kind |-> "error", items |-> <<>>]]
    ELSE IF web.n = 0
    THEN [raised |-> FALSE, ctx |-> [kind |-> "no_results", items |-> <<>>]]
    ELSE [raised |-> FALSE,
          ctx |-> [kind |-> "results",
                   items |-> [i \in 1..Min(WebResultsUsed, web.n) |-> i]]]

\* A router that searches the web for every question.
WebStepAlways(needs, web) ==
    [calls |-> <<"web">>, got |-> GetWebContext(web)]

\* query lines 247-252: the web branch.
WebStep(needs, web) ==
    IF needs
    THEN [calls |-> <<"web">>, got |-> GetWebContext(web)]
    ELSE [calls |-> <<>>,
          got |-> [raised |-> FALSE, ctx |-> NoWebSearchPlaceholder]]

\* ------------------------------------------- get_web_context, character-wise
\* result['content'][:400] and len(result['content']) > 400
ContentBudget == 400
\* '...'
TruncationMarker == <<".", ".", ".">>

\* The characters a content is made of, by position; the period does not
\* divide the budget, so two different cuts of one content differ.
ContentAlphabet == <<"a", "b", "c", "d", "e", "f", "g">>
ContentOfLength(n) ==
    [i \in 1..n |-> ContentAlphabet[((i - 1) % Len(ContentAlphabet)) + 1]]

\* The content lengths tried: around the budget and well to either side.
ContentLengths ==
    {ContentBudget - 100, ContentBudget - 1, ContentBudget,
     ContentBudget + 1, ContentBudget + 100}

\* One result of comprehensive_legal_search; the title stands for the
\* result's rank in the provider's order.
WebResult(rank, len) ==
    [title |-> rank, source |-> "indiankanoon.org",
     content |-> ContentOfLength(len)]

\* Every result list of n results, rank by rank.
RECURSIVE ResultLists(_)
ResultLists(n) ==
    IF n = 0 THEN {<<>>}
    ELSE {Append(rs, WebResult(n, len)) :
             rs \in ResultLists(n - 1), len \in ContentLengths}

\* A cut that also marks a content exactly as long as the budget.
TruncateFromBudget(content) ==
    SubSeq(content, 1, Min(Len(content), ContentBudget))
        \o (IF Len(content) >= ContentBudget THEN TruncationMarker ELSE <<>>)

\* f"{result['content'][:400]}{'...' if len(result['content']) > 400 else ''}"
Truncate(content) ==
    SubSeq(content, 1, Min(Len(content), ContentBudget))
        \o (IF Len(content) > ContentBudget THEN TruncationMarker ELSE <<>>)

\* The two lines the loop adds for result number i.
FormatResult(i, result) ==
    [number |-> i, title |-> result.title, source |-> result.source,
     body |-> Truncate(result.content)]

\* A loop over every result the provider returned.
FormatWebContextAll(results) ==
    [i \in 1..Len(results) |-> FormatResult(i, results[i])]

\* for i, result in enumerate(search_results['results'][:2], 1)
FormatWebContext(results) ==
    [i \in 1..Min(WebResultsUsed, Len(results)) |->
        FormatResult(i, results[i])]

\* get_web_context on what the provider did: the string it returns, by kind
\* and by the entries it lists.
WebContextOf(call) ==
    IF call.raises THEN [kind |-> "error", items |-> <<>>]
    ELSE IF call.results = <<>> THEN [kind |-> "no_results", items |-> <<>>]
    ELSE [kind |-> "results", items |-> FormatWebContext(call.results)]

\* The provider raises, or returns up to MaxResults results.
WebCallInputs ==
    {[results |-> <<>>, raises |-> TRUE, done |-> FALSE,
      context |-> NoWebContext]} \cup
    {[results |-> rs, raises |-> FALSE, done |-> FALSE,
      context |-> NoWebContext] :
        rs \in UNION {ResultLists(n) : n \in 0..MaxResults}}

CallGetWebContext ==
    /\ ~webCall.done
    /\ webCall' = [webCall EXCEPT !.done = TRUE,
                                  !.context = WebContextOf(webCall)]
    /\ UNCHANGED <<coreVars, uiVars, listVars, queryVars, probe,
                   sanitizeCall, loaderCall>>

\* ------------------------------------------------------------------- query
\* How many times x occurs in a sequence.
Count(seq, x) == Cardinality({i \in DOMAIN seq : seq[i] = x})

\* str.replace(pat, ''): every non-overlapping occurrence, left to right.
RECURSIVE RemoveAll(_, _)
RemoveAll(text, pat) ==
    IF Len(text) < Len(pat) THEN text
    ELSE IF SubSeq(text, 1, Len(pat)) = pat
         THEN RemoveAll(SubSeq(text, Len(pat) + 1, Len(text)), pat)
         ELSE <<text[1]>> \o RemoveAll(Tail(text), pat)

\* A clean-up that only knows the asterisk.
SanitizeStarsOnly(text) ==
    RemoveAll(RemoveAll(text, <<"*", "*">>), <<"*">>)

\* query lines 267-271.
Sanitize(text) ==
    RemoveAll(RemoveAll(RemoveAll(RemoveAll(RemoveAll(text,
        <<"*", "*">>), <<"*">>), <<"#", "#", "#">>), <<"#", "#">>), <<"#">>)

\* Longest completion text cleaned up character by character.
MaxTextLen == 4
\* The characters of those texts: the two markup characters and a letter.
TextAlphabet == {"a", "*", "#"}

RECURSIVE TextsOfLength(_)
TextsOfLength(n) ==
    IF n = 0 THEN {<<>>}
    ELSE {Append(t, c) : t \in TextsOfLength(n - 1), c \in TextAlphabet}

SanitizeInputs ==
    {[text |-> t, done |-> FALSE, result |-> <<>>] :
        t \in UNION {TextsOfLength(n) : n \in 0..MaxTextLen}}

\* query lines 264-273 on one completion text.
CallSanitize ==
    /\ ~sanitizeCall.done
    /\ sanitizeCall' = [sanitizeCall EXCEPT
                           !.done = TRUE,
                           !.result = Sanitize(sanitizeCall.text)]
    /\ UNCHANGED <<coreVars, uiVars, listVars, queryVars, probe, webCall,
                   loaderCall>>

\* What llm.complete can do: raise, or return a text.
CompletionOutcomes ==
    {[raises |-> TRUE, text |-> <<>>]} \cup
    {[raises |-> FALSE, text |-> t] : t \in CompletionTexts}

NoAnswer == [kind |-> "none", text |-> <<>>]
\* "Error processing query: ..."
ErrorAnswer == [kind |-> "error", text |-> <<>>]
NoPrompt == [context_str |-> NoIndex, web_context |-> NoWebContext,
             query_str |-> <<>>]
NoInput == [inited |-> FALSE, retrieveOk |-> TRUE,
            web |-> [raises |-> FALSE, n |-> 0],
            completion |-> [raises |-> FALSE, text |-> <<>>]]

\* A query without the query-engine guard.
GuardAbsent == FALSE

\* query line 237: `if not self.query_engine`.
QueryEngineMissing == queryEngine = NoIndex

\* An except clause that re-raises instead of answering.
ExceptReraise(needs, p, made) ==
    [outcome |-> "raised", answer |-> NoAnswer, needsWeb |-> needs,
     prompt |-> p, calls |-> made]

\* query lines 275-276: the except clause turns the error into the answer.
ExceptHandler(needs, p, made) ==
    [outcome |-> "returned", answer |-> ErrorAnswer, needsWeb |-> needs,
     prompt |-> p, calls |-> made]

\* A query that asks the query engine as well as the LLM.
LlmCompleteTwice == <<"complete", "complete">>

\* query line 262: the one llm.complete call.
LlmComplete == <<"complete">>

\* A query that keeps talking: the new answer follows the last one.
AnsweredAfterLast(text) ==
    [kind |-> "answer", text |-> answer.text \o Sanitize(text)]

\* query lines 264-273: the cleaned-up response is what query returns.
Answered(text) == [kind |-> "answer", text |-> Sanitize(text)]

\* retriever.retrieve is called with this similarity_top_k.
SimilarityTopK == 3

\* A query that goes to the LLM without asking the index.
NoLocalRetrieval == <<>>

\* query lines 242-243: the one retriever.retrieve call.
LocalRetrieval == <<"retrieve">>

\* query(question), from the guard to the return or raise.
QueryRun(q, retrieveOk, web, completion) ==
    IF QueryEngineMissing
    THEN [outcome |-> "raised", answer |-> NoAnswer, needsWeb |-> "none",
          prompt |-> NoPrompt, calls |-> <<>>]
    ELSE IF ~retrieveOk
    THEN ExceptHandler("none", NoPrompt, LocalRetrieval)
    ELSE LET needs == NeedsWebOf[q]
             nw == IF needs THEN "yes" ELSE "no"
             w == WebStep(needs, web)
             p == [context_str |-> index, web_context |-> w.got.ctx,
                   query_str |-> q]
         IN IF w.got.raised
            THEN ExceptHandler(nw, NoPrompt, LocalRetrieval \o w.calls)
            ELSE IF completion.raises
            THEN ExceptHandler(nw, p,
                               LocalRetrieval \o w.calls \o LlmComplete)
            ELSE [outcome |-> "returned",
                  answer |-> Answered(completion.text),
                  needsWeb |-> nw, prompt |-> p,
                  calls |-> LocalRetrieval \o w.calls \o LlmComplete]

\* A collaborator the query does not reach does nothing: its outcome is
\* the one NoInput records.
RetrieveOutcomes ==
    IF QueryEngineMissing THEN {NoInput.retrieveOk} ELSE BOOLEAN

WebOutcomesFor(q, retrieveOk) ==
    IF ~QueryEngineMissing /\ retrieveOk /\ NeedsWebOf[q]
    THEN WebOutcomes ELSE {NoInput.web}

CompletionOutcomesFor(retrieveOk) ==
    IF ~QueryEngineMissing /\ retrieveOk
    THEN CompletionOutcomes ELSE {NoInput.completion}

Query(q, retrieveOk, web, completion) ==
    /\ pc = "idle"
    /\ LET r == QueryRun(q, retrieveOk, web, completion)
       IN /\ question' = q
          /\ qInput' = [inited |-> initDone, retrieveOk |-> retrieveOk,
                        web |-> web, completion |-> completion]
          /\ qOutcome' = r.outcome
          /\ answer' = r.answer
          /\ needsWeb' = r.needsWeb
          /\ prompt' = r.prompt
          /\ calls' = r.calls
          /\ retrieveK' = IF Count(r.calls, "retrieve") > 0
                           THEN SimilarityTopK ELSE 0
    /\ UNCHANGED <<coreVars, pureVars, uiVars, listVars>>

\* ------------------------------------------------------------------ app.py
\* 'chatbot' not in st.session_state
NoChatbot == [present |-> FALSE, engine |-> FALSE]

\* A browser session that has just opened the page.
SessionAtStart ==
    /\ sessionChatbot = NoChatbot
    /\ chatHistory = <<>>
    /\ uiInitCalls = 0
    /\ uiRebuildPressed = FALSE
    /\ uiQueried = "none"
    /\ uiPage = "none"

\* Most question-and-answer exchanges a chat history holds.
MaxQuestions == 2
\* Most chatbot.initialize() calls the UI makes in one session.
MaxInitCalls == 2

\* Two of the sample questions.
UiQuestions ==
    {"What is Article 21 of Indian Constitution?",
     "Latest cases on Article 370"}

\* What starts a script run: the page opening or rerunning, a button, or a
\* question (typed or from a sample button).
UiEvents ==
    {[kind |-> k, q |-> ""] :
        k \in {"load", "rebuild", "try_rebuild", "show_documents",
               "clear"}} \cup
    {[kind |-> "question", q |-> q] : q \in UiQuestions}

\* A widget can be used once a script run has rendered it: the sidebar
\* always, the rebuild offer after a cache error, the chat widgets after
\* initialize_chatbot returned True.
Rendered(ev) ==
    CASE ev.kind = "load" -> TRUE
      [] ev.kind = "rebuild" -> uiPage # "none"
      [] ev.kind = "try_rebuild" -> uiPage = "offer"
      [] OTHER -> uiPage = "chat"

\* The documents folder as main() finds it.
FolderStates == {"missing", "empty", "files"}

\* How chatbot.initialize() or rebuild_index() ends for the UI: normally,
\* or with an exception whose text may hold the word "cache".
InitOutcomes ==
    {[ok |-> TRUE, cache |-> FALSE], [ok |-> FALSE, cache |-> FALSE],
     [ok |-> FALSE, cache |-> TRUE]}

\* What query returns on a chatbot with a query engine.
QueryReplies == {"answer", "Error processing query"}
\* f"Sorry, I encountered an error: {str(e)}"
Apology == "Sorry, I encountered an error"

UserTurn(q) == [role |-> "user", content |-> q]
AssistantTurn(content) == [role |-> "assistant", content |-> content]

\* An initialize_chatbot that puts the chatbot into the session before it
\* initializes it.
StoredBeforeInitialize(ok) == [present |-> TRUE, engine |-> ok]

\* initialize_chatbot: st.session_state.chatbot is assigned after
\* initialize() / rebuild_index() returned, and not at all when it raised.
StoredChatbot(ok) ==
    IF ok THEN [present |-> TRUE, engine |-> TRUE] ELSE NoChatbot

\* st.session_state.chatbot.query(user_question): the guard of query raises
\* on a chatbot without a query engine.
QueryOn(chatbot, reply) ==
    IF chatbot.engine THEN [raised |-> FALSE, text |-> reply]
    ELSE [raised |-> TRUE, text |-> ""]

\* A handler that records the answer without the question.
ExchangeAnswerOnly(q, chatbot, reply) ==
    <<AssistantTurn(reply)>>

\* The turns one question adds: the user's, then the answer or the apology.
Exchange(q, chatbot, reply) ==
    <<UserTurn(q),
      IF QueryOn(chatbot, reply).raised
      THEN AssistantTurn(Apology)
      ELSE AssistantTurn(QueryOn(chatbot, reply).text)>>

\* A history that only keeps the latest exchange.
Restarted(history, turns) == turns

\* st.session_state.chat_history.append, twice.
Extended(history, turns) == history \o turns

\* The session as a script run leaves it when it changes nothing.
SessionAsIs ==
    [chatbot |-> sessionChatbot, history |-> chatHistory,
     initCalls |-> uiInitCalls, queried |-> uiQueried, page |-> "top"]

\* main() from the chat history on, with the chatbot cb in the session.
AfterInitialize(ev, cb, n, reply) ==
    IF ev.kind = "question"
    THEN [chatbot |-> cb,
          history |-> Extended(chatHistory, Exchange(ev.q, cb, reply)),
          initCalls |-> n,
          queried |-> IF cb.engine THEN "ready" ELSE "unready",
          page |-> "chat"]
    ELSE [chatbot |-> cb,
          history |-> IF ev.kind = "clear" THEN <<>> ELSE chatHistory,
          initCalls |-> n, queried |-> uiQueried, page |-> "chat"]

\* One run of the script, to its end, its return or the exception that
\* stops it.
ScriptRun(ev, folder, init, rebuild, reply) ==
    IF ev.kind = "rebuild" /\ sessionChatbot.present /\ ~rebuild.ok
    THEN SessionAsIs
    ELSE IF folder # "files" THEN SessionAsIs
    ELSE IF sessionChatbot.present
    THEN AfterInitialize(ev, sessionChatbot, uiInitCalls, reply)
    ELSE LET ok == \/ init.ok
                   \/ init.cache /\ ev.kind = "try_rebuild" /\ rebuild.ok
         IN IF ok
            THEN AfterInitialize(ev, StoredChatbot(ok), uiInitCalls + 1,
                                 reply)
            ELSE [SessionAsIs EXCEPT
                     !.chatbot = StoredChatbot(ok),
                     !.initCalls = uiInitCalls + 1,
                     !.page = IF init.cache THEN "offer" ELSE "top"]

RunScript(ev, folder, init, rebuild, reply) ==
    /\ Rendered(ev)
    /\ LET r == ScriptRun(ev, folder, init, rebuild, reply)
       IN /\ r.initCalls <= MaxInitCalls
          /\ Len(r.history) <= 2 * MaxQuestions
          /\ sessionChatbot' = r.chatbot
          /\ chatHistory' = r.history
          /\ uiInitCalls' = r.initCalls
          /\ uiQueried' = r.queried
          /\ uiPage' = r.page
    /\ uiRebuildPressed' =
          (uiRebuildPressed \/ ev.kind \in {"rebuild", "try_rebuild"})
    /\ UNCHANGED <<coreVars, pureVars, listVars, queryVars>>

\* ------------------------------------------------------- DocumentProcessor
\* Largest number of entries in a folder read file by file.
MaxFolderEntries == 2

\* The extensions process_document knows.
SupportedExtensions ==
    {<<".", "p", "d", "f">>, <<".", "d", "o", "c", "x">>,
     <<".", "t", "x", "t">>}

\* What str.strip() removes.
Whitespace == {" ", "\n", "\t"}

\* text.strip()
RECURSIVE StripLeft(_)
StripLeft(text) ==
    IF text # <<>> /\ Head(text) \in Whitespace
    THEN StripLeft(Tail(text)) ELSE text
RECURSIVE StripRight(_)
StripRight(text) ==
    IF text # <<>> /\ text[Len(text)] \in Whitespace
    THEN StripRight(SubSeq(text, 1, Len(text) - 1)) ELSE text
Strip(text) == StripRight(StripLeft(text))

\* What reading a file can do: raise, or give its text.
ExtractOutcomes ==
    {[raises |-> TRUE, text |-> <<>>],
     [raises |-> FALSE, text |-> <<"l", "a", "w">>],
     [raises |-> FALSE, text |-> <<" ", "\n">>],
     [raises |-> FALSE, text |-> <<>>]}
NotExtracted == [raises |-> FALSE, text |-> <<>>]

\* The extensions os.path.splitext finds on the entries of the folder.
EntryExtensions ==
    {<<".", "t", "x", "t">>, <<".", "P", "D", "F">>,
     <<".", "D", "o", "c", "x">>, <<".", "m", "d">>, <<>>}

\* The entries of a folder: a sub-folder, files of a supported extension
\* with whatever their extraction does, files of another extension (which
\* are never read).
FolderEntries ==
    {[isfile |-> FALSE, ext |-> <<>>, extract |-> NotExtracted]} \cup
    {[isfile |-> TRUE, ext |-> e, extract |-> x] :
        e \in {e \in EntryExtensions : Lower(e) \in SupportedExtensions},
        x \in ExtractOutcomes} \cup
    {[isfile |-> TRUE, ext |-> e, extract |-> NotExtracted] :
        e \in {e \in EntryExtensions : Lower(e) \notin SupportedExtensions}}

RECURSIVE Listings(_)
Listings(n) ==
    IF n = 0 THEN {<<>>}
    ELSE {Append(l, e) : l \in Listings(n - 1), e \in FolderEntries}

\* extract_text_from_pdf / _docx / _txt: an exception gives "".
ExtractText(entry) ==
    IF entry.extract.raises THEN <<>> ELSE entry.extract.text

\* An extension compared as it is spelled.
FileExtensionAsSpelled(ext) == ext

\* os.path.splitext(file_path)[1].lower()
FileExtension(ext) == Lower(ext)

\* process_document returned None.
NoDocument == [filename |-> 0, text |-> <<>>]

\* process_document on the entry at position i of the listing; the position
\* stands for the file name.
ProcessDocument(i, entry) ==
    IF FileExtension(entry.ext) \notin SupportedExtensions THEN NoDocument
    ELSE IF Strip(ExtractText(entry)) # <<>>
         THEN [filename |-> i, text |-> ExtractText(entry)]
         ELSE NoDocument

\* The for loop of process_all_documents from position i.
RECURSIVE ProcessEntries(_, _)
ProcessEntries(listing, i) ==
    IF i > Len(listing) THEN <<>>
    ELSE IF listing[i].isfile /\ ProcessDocument(i, listing[i]) # NoDocument
         THEN <<ProcessDocument(i, listing[i])>>
                  \o ProcessEntries(listing, i + 1)
         ELSE ProcessEntries(listing, i + 1)

\* process_all_documents on a folder.
ProcessFolder(exists, listing) ==
    IF ~exists THEN <<>> ELSE ProcessEntries(listing, 1)

LoaderInputs ==
    {[exists |-> FALSE, listing |-> <<>>, done |-> FALSE,
      result |-> <<>>]} \cup
    {[exists |-> TRUE, listing |-> l, done |-> FALSE, result |-> <<>>] :
        l \in UNION {Listings(n) : n \in 0..MaxFolderEntries}}

CallProcessAllDocuments ==
    /\ ~loaderCall.done
    /\ loaderCall' = [loaderCall EXCEPT
                         !.done = TRUE,
                         !.result = ProcessFolder(loaderCall.exists,
                                                  loaderCall.listing)]
    /\ UNCHANGED <<coreVars, uiVars, listVars, queryVars, probe, webCall,
                   sanitizeCall>>

\* ------------------------------------------------------------ LinkedList
\* Node.next = None, LinkedList.head = None.
None == 0
\* No operation made yet.
NoOp == [op |-> "none", arg |-> 0, raised |-> FALSE]

\* ll = LinkedList()
ListAtStart ==
    /\ head = None
    /\ heap = <<>>
    /\ abstractSeq = <<>>
    /\ lastOp = NoOp

\* The most Node objects one run allocates.
MaxNodes == 3
\* The largest value typed at "Enter the value to add".
MaxData == 2
\* data = int(input(...))
DataValues == 0 .. MaxData
\* n = int(input(...)): negative, zero, in range and past the end.
Positions == -1 .. MaxNodes + 1

\* Node(data)
NewNode(data) == [data |-> data, next |-> None]

\* print_list's walk: the values reached from a node by following next.
RECURSIVE ValuesFrom(_, _)
ValuesFrom(h, node) ==
    IF node = None THEN <<>>
    ELSE <<h[node].data>> \o ValuesFrom(h, h[node].next)

\* current = self.head; while current.next: current = current.next
RECURSIVE LastNode(_, _)
LastNode(h, current) ==
    IF h[current].next = None THEN current
    ELSE LastNode(h, h[current].next)

\* ll.add_node(data)
AddNode(data) ==
    /\ Len(heap) < MaxNodes
    /\ LET new_node == Len(heap) + 1
           allocated == Append(heap, NewNode(data))
       IN  IF head = None
           THEN /\ head' = new_node
                /\ heap' = allocated
           ELSE /\ heap' = [allocated EXCEPT
                               ![LastNode(heap, head)].next = new_node]
                /\ UNCHANGED head
    /\ abstractSeq' = Append(abstractSeq, data)
    /\ lastOp' = [op |-> "add", arg |-> data, raised |-> FALSE]
    /\ UNCHANGED <<coreVars, pureVars, uiVars, queryVars>>

\* if n <= 0: raise Exception("Invalid index. ...")
InvalidIndexNegativeOnly(n) == n < 0
InvalidIndex(n) == n <= 0

\* for i in range(n - 2)
WalkStepsToTheNode(n) == n - 1
WalkSteps(n) == n - 2

\* The loop of delete_nth_node: the node reached after that many steps, or
\* None where the loop raises "Index n is out of range."
RECURSIVE Advance(_, _, _)
Advance(h, current, steps) ==
    IF steps <= 0 THEN current
    ELSE IF h[current].next = None THEN None
    ELSE Advance(h, h[current].next, steps - 1)

\* The sequence without its n-th element, 1 <= n <= Len(seq).
RemoveAt(seq, n) ==
    [i \in 1 .. Len(seq) - 1 |-> IF i < n THEN seq[i] ELSE seq[i + 1]]

\* What the sequence the list stands for becomes on delete_nth_node(n).
AbstractDelete(seq, n) ==
    IF 1 <= n /\ n <= Len(seq) THEN RemoveAt(seq, n) ELSE seq

\* ll.delete_nth_node(n), the exception caught by the menu loop.
DeleteNthNode(n) ==
    /\ LET raises(flag) ==
               lastOp' = [op |-> "delete", arg |-> n, raised |-> flag]
       IN  IF head = None \/ InvalidIndex(n)
           THEN raises(TRUE) /\ UNCHANGED <<head, heap>>
           ELSE IF n = 1
           THEN /\ head' = heap[head].next
                /\ UNCHANGED heap
                /\ raises(FALSE)
           ELSE LET current == Advance(heap, head, WalkSteps(n))
                IN  IF current = None \/ heap[current].next = None
                    THEN raises(TRUE) /\ UNCHANGED <<head, heap>>
                    ELSE /\ heap' = [heap EXCEPT ![current].next =
                                         heap[heap[current].next].next]
                         /\ UNCHANGED head
                         /\ raises(FALSE)
    /\ abstractSeq' = AbstractDelete(abstractSeq, n)
    /\ UNCHANGED <<coreVars, pureVars, uiVars, queryVars>>

\* ------------------------------------------------------ single pure calls
NoWebCall == [results |-> <<>>, raises |-> FALSE, done |-> FALSE,
              context |-> NoWebContext]
NoSanitizeCall == [text |-> <<>>, done |-> FALSE, result |-> <<>>]
NoLoaderCall == [exists |-> TRUE, listing |-> <<>>, done |-> FALSE,
                 result |-> <<>>]

\* ------------------------------------------------------------ specification
Init ==
    /\ clock = 0
    /\ dirExists = TRUE
    /\ files \in [FileNames -> {Absent, 0}]
    /\ storageDir = FALSE
    /\ stores = [s \in 1..NumStores |-> NoIndex]
    /\ manifest = Absent
    /\ manifestBuild = 0
    /\ index = NoIndex
    /\ queryEngine = NoIndex
    /\ pc = "idle"
    /\ callForce = FALSE
    /\ dirAtCall = TRUE
    /\ initSource = "none"
    /\ initResult = "none"
    /\ embedCalls = 0
    /\ loaderCalls = 0
    /\ documents = NoIndex
    /\ storePos = 0
    /\ nextBuild = 1
    /\ dirtyUpTo = 0
    /\ initDone = FALSE
    /\ loadFailed = FALSE
    /\ saveResult = "none"
    /\ probe = NoProbe
    /\ question = <<>>
    /\ qInput = NoInput
    /\ qOutcome = "none"
    /\ answer = NoAnswer
    /\ needsWeb = "none"
    /\ prompt = NoPrompt
    /\ calls = <<>>
    /\ retrieveK = 0
    /\ webCall = NoWebCall
    /\ sanitizeCall = NoSanitizeCall
    /\ loaderCall = NoLoaderCall
    /\ SessionAtStart
    /\ ListAtStart

vars == <<coreVars, pureVars, uiVars, listVars, queryVars>>

\* The index lifecycle on a disk whose documents folder changes under it.
Next ==
    \/ NewChatbot
    \/ \E force \in BOOLEAN : StartInitialize(force)
    \/ RebuildIndex
    \/ ProcessDocuments
    \/ BuildVectorIndex
    \/ MakeStorageDir
    \/ PersistStore
    \/ WriteManifest
    \/ SetupQueryEngine
    \/ Tick
    \/ \E f \in FileNames : TouchFile(f)
    \/ \E f \in FileNames, m \in 0..clock : AddFile(f, m)
    \/ \E f \in FileNames : RemoveFile(f)
    \/ RemoveDir

Spec == Init /\ [][Next]_vars

\* Queries against one chatbot, between and after its initializations.
NextQuery ==
    \/ NewChatbot
    \/ \E force \in BOOLEAN : StartInitialize(force)
    \/ ProcessDocuments
    \/ BuildVectorIndex
    \/ MakeStorageDir
    \/ PersistStore
    \/ WriteManifest
    \/ SetupQueryEngine
    \/ \E q \in Questions :
          \E retrieveOk \in RetrieveOutcomes :
             \E web \in WebOutcomesFor(q, retrieveOk) :
                \E completion \in CompletionOutcomesFor(retrieveOk) :
                   Query(q, retrieveOk, web, completion)

\* A corpus of one document.
InitQuery == Init /\ files = [f \in FileNames |->
                               IF f = FileOrder[1] THEN 0 ELSE Absent]

SpecQuery == InitQuery /\ [][NextQuery]_vars

\* _documents_changed applied to every input within the bounds.
InitStale ==
    /\ clock = 0
    /\ dirExists = TRUE
    /\ files = [f \in FileNames |-> Absent]
    /\ storageDir = FALSE
    /\ stores = [s \in 1..NumStores |-> NoIndex]
    /\ manifest = Absent
    /\ manifestBuild = 0
    /\ index = NoIndex
    /\ queryEngine = NoIndex
    /\ pc = "idle"
    /\ callForce = FALSE
    /\ dirAtCall = TRUE
    /\ initSource = "none"
    /\ initResult = "none"
    /\ embedCalls = 0
    /\ loaderCalls = 0
    /\ documents = NoIndex
    /\ storePos = 0
    /\ nextBuild = 1
    /\ dirtyUpTo = 0
    /\ initDone = FALSE
    /\ loadFailed = FALSE
    /\ saveResult = "none"
    /\ probe \in {p \in ProbeInputs : p.dir \/ p.listing = <<>>}
    /\ question = <<>>
    /\ qInput = NoInput
    /\ qOutcome = "none"
    /\ answer = NoAnswer
    /\ needsWeb = "none"
    /\ prompt = NoPrompt
    /\ calls = <<>>
    /\ retrieveK = 0
    /\ webCall = NoWebCall
    /\ sanitizeCall = NoSanitizeCall
    /\ loaderCall = NoLoaderCall
    /\ SessionAtStart
    /\ ListAtStart

NextStale == CallDocumentsChanged

SpecStale == InitStale /\ [][NextStale]_vars

\* The index lifecycle over a storage directory that is damaged between
\* initializations; the corpus is one document and does not change.
NextStorage ==
    \/ NewChatbot
    \/ \E force \in BOOLEAN : StartInitialize(force)
    \/ RebuildIndex
    \/ ProcessDocuments
    \/ BuildVectorIndex
    \/ MakeStorageDir
    \/ PersistStore
    \/ WriteManifest
    \/ SetupQueryEngine
    \/ \E s \in 1..NumStores : RemoveArtifact(s)
    \/ \E s \in 1..NumStores : DamageArtifact(s)
    \/ RemoveStorageDir

SpecStorage == InitQuery /\ [][NextStorage]_vars

\* A chatbot just constructed over an empty folder, nothing asked of it.
JustConstructed ==
    /\ clock = 0
    /\ dirExists = TRUE
    /\ files = [f \in FileNames |-> Absent]
    /\ storageDir = FALSE
    /\ stores = [s \in 1..NumStores |-> NoIndex]
    /\ manifest = Absent
    /\ manifestBuild = 0
    /\ index = NoIndex
    /\ queryEngine = NoIndex
    /\ pc = "idle"
    /\ callForce = FALSE
    /\ dirAtCall = TRUE
    /\ initSource = "none"
    /\ initResult = "none"
    /\ embedCalls = 0
    /\ loaderCalls = 0
    /\ documents = NoIndex
    /\ storePos = 0
    /\ nextBuild = 1
    /\ dirtyUpTo = 0
    /\ initDone = FALSE
    /\ loadFailed = FALSE
    /\ saveResult = "none"
    /\ question = <<>>
    /\ qInput = NoInput
    /\ qOutcome = "none"
    /\ answer = NoAnswer
    /\ needsWeb = "none"
    /\ prompt = NoPrompt
    /\ calls = <<>>
    /\ retrieveK = 0

\* get_web_context applied to every provider outcome within the bounds.
InitWeb ==
    /\ JustConstructed
    /\ probe = NoProbe
    /\ webCall \in WebCallInputs
    /\ sanitizeCall = NoSanitizeCall
    /\ loaderCall = NoLoaderCall
    /\ SessionAtStart
    /\ ListAtStart

NextWeb == CallGetWebContext

SpecWeb == InitWeb /\ [][NextWeb]_vars

\* The clean-up of query applied to every text within the bounds.
InitSanitize ==
    /\ JustConstructed
    /\ probe = NoProbe
    /\ webCall = NoWebCall
    /\ sanitizeCall \in SanitizeInputs
    /\ loaderCall = NoLoaderCall
    /\ SessionAtStart
    /\ ListAtStart

NextSanitize == CallSanitize

SpecSanitize == InitSanitize /\ [][NextSanitize]_vars

\* process_all_documents applied to every folder within the bounds.
InitLoader ==
    /\ JustConstructed
    /\ probe = NoProbe
    /\ webCall = NoWebCall
    /\ sanitizeCall = NoSanitizeCall
    /\ loaderCall \in LoaderInputs
    /\ SessionAtStart
    /\ ListAtStart

NextLoader == CallProcessAllDocuments

SpecLoader == InitLoader /\ [][NextLoader]_vars

\* The menu loop of code_week2.py: choices 1 and 3 in any order.
InitList ==
    /\ JustConstructed
    /\ probe = NoProbe
    /\ webCall = NoWebCall
    /\ sanitizeCall = NoSanitizeCall
    /\ loaderCall = NoLoaderCall
    /\ SessionAtStart
    /\ ListAtStart

NextList ==
    \/ \E data \in DataValues : AddNode(data)
    \/ \E n \in Positions : DeleteNthNode(n)

SpecList == InitList /\ [][NextList]_vars

\* A browser session of app.py, script run by script run.
InitUI ==
    /\ JustConstructed
    /\ probe = NoProbe
    /\ webCall = NoWebCall
    /\ sanitizeCall = NoSanitizeCall
    /\ loaderCall = NoLoaderCall
    /\ SessionAtStart
    /\ ListAtStart

NextUI ==
    \E ev \in UiEvents, folder \in FolderStates, init \in InitOutcomes,
       rebuild \in InitOutcomes, reply \in QueryReplies :
        RunScript(ev, folder, init, rebuild, reply)

SpecUI == InitUI /\ [][NextUI]_vars

\* The index lifecycle while files of the folder are rewritten, and nothing
\* else happens to the folder.
NextRace ==
    \/ NewChatbot
    \/ \E force \in BOOLEAN : StartInitialize(force)
    \/ RebuildIndex
    \/ ProcessDocuments
    \/ BuildVectorIndex
    \/ MakeStorageDir
    \/ PersistStore
    \/ WriteManifest
    \/ SetupQueryEngine
    \/ Tick
    \/ \E f \in FileNames : TouchFile(f)

SpecRace == Init /\ [][NextRace]_vars

\* ------------------------------------------------------------------ claims

\* A manifest is on disk beside three whole artifacts of the build that
\* stamped it.
SnapshotPersisted ==
    /\ manifest # Absent
    /\ storageDir
    /\ StoresReadable
    /\ \A s \in 1..NumStores : stores[s].id = manifestBuild

\* C1: _documents_changed answers stale when there is no manifest; with a
\* manifest of time T and the folder present it answers stale when some
\* regular file is newer than T and fresh when no entry is newer than T
\* (a file exactly as old as the manifest is fresh).
C1_IsStaleContract ==
    probe.result # "unset" =>
        /\ probe.cache = Absent => probe.result = "stale"
        /\ ( /\ probe.cache # Absent
             /\ probe.dir
             /\ \E i \in DOMAIN probe.listing :
                   /\ probe.listing[i].isfile
                   /\ probe.listing[i].mtime > probe.cache )
           => probe.result = "stale"
        /\ ( /\ probe.cache # Absent
             /\ probe.dir
             /\ \A i \in DOMAIN probe.listing :
                   probe.listing[i].mtime <= probe.cache )
           => probe.result = "fresh"

\* The check answered fresh for a folder holding a regular file exactly as
\* old as the manifest.
C1_Witness ==
    /\ probe.result = "fresh"
    /\ \E i \in DOMAIN probe.listing :
          probe.listing[i].isfile /\ probe.listing[i].mtime = probe.cache

\* C2: once a snapshot is persisted and the chatbot is at rest, a file
\* rewritten later than the manifest, a file added (with whatever
\* modification time) and a file removed each make the staleness check
\* answer stale.
C2_WholeCorpusInvalidation ==
    [][ ( /\ SnapshotPersisted
          /\ pc = "idle"
          /\ \E f \in FileNames :
                \/ TouchFile(f) /\ clock > manifest
                \/ \E m \in 0..clock : AddFile(f, m)
                \/ RemoveFile(f) )
        => IsStale' ]_vars

\* C3: whenever no save is under way, a manifest on disk is beside three
\* whole artifacts of the build that stamped it.
C3_PersistAllOrNothing ==
    (pc \notin {"makedirs", "persist", "manifest"} /\ manifest # Absent)
        => SnapshotPersisted

\* C4: with a persisted snapshot whose corpus has not changed since it was
\* read, initialize(force_rebuild=False) takes the persisted index, reads no
\* corpus, embeds nothing and ends successfully on that index.
C4_SecondInitializeLoadsCache ==
    /\ [][ ( /\ SnapshotPersisted
             /\ manifestBuild > dirtyUpTo
             /\ StartInitialize(FALSE) )
           => ( /\ initSource' = "cache"
                /\ pc' = "setup"
                /\ index' = [id |-> manifestBuild, docs |-> stores[1].docs] )
       ]_vars
    /\ [](initSource = "cache" => embedCalls = 0 /\ loaderCalls = 0)
    /\ []((initSource = "cache" /\ pc = "idle")
             => initResult = "ok" /\ queryEngine = index)

\* An initialize has ended on the index loaded from a snapshot whose corpus
\* is unchanged.
C4_Witness ==
    /\ pc = "idle"
    /\ initSource = "cache"
    /\ initResult = "ok"
    /\ SnapshotPersisted
    /\ manifestBuild > dirtyUpTo
    /\ queryEngine.id = manifestBuild

\* C5: a query made while no initialize has succeeded on the chatbot is
\* raised to the caller with no collaborator called; a query that returns
\* was made after a successful initialize.
C5_QueryBeforeInitialize ==
    qOutcome # "none" =>
        /\ ~qInput.inited =>
              qOutcome = "raised" /\ calls = <<>> /\ answer = NoAnswer
        /\ qOutcome = "returned" => qInput.inited

\* A query was raised on a chatbot whose only initialize failed.
C5_Witness ==
    /\ qOutcome = "raised"
    /\ initResult = "ProviderError"
    /\ ~initDone

\* C6: a query made after a successful initialize returns; when retrieval or
\* completion raised, what it returns is the error string.
C6_QueryErrorsBecomeAnswers ==
    (qOutcome # "none" /\ qInput.inited) =>
        /\ qOutcome = "returned"
        /\ (~qInput.retrieveOk \/ qInput.completion.raises)
              => answer = ErrorAnswer

\* The completion raised and the query returned the error string.
C6_Witness ==
    /\ qInput.inited
    /\ qInput.completion.raises
    /\ Count(calls, "complete") = 1
    /\ qOutcome = "returned"
    /\ answer = ErrorAnswer

\* C7 as stated: every query on an initialized chatbot makes exactly one
\* completion call.
C7_ExactlyOneCompletion ==
    (qOutcome # "none" /\ qInput.inited) => Count(calls, "complete") = 1

\* C7 amended: a query on an initialized chatbot makes one completion call
\* when retrieval succeeded and none when retrieval raised.
C7_AtMostOneCompletion ==
    (qOutcome # "none" /\ qInput.inited) =>
        Count(calls, "complete") = (IF qInput.retrieveOk THEN 1 ELSE 0)

\* The web provider raised and the query still made its one completion call.
C7_Witness ==
    /\ qInput.inited
    /\ needsWeb = "yes"
    /\ qInput.web.raises
    /\ Count(calls, "complete") = 1

\* C8: whenever a query was classified, the classification is the one its
\* text fixes: yes when the lower-cased text contains "latest" or another
\* keyword, no when it contains none.
C8_RoutingDeterminism ==
    needsWeb # "none" =>
        LET text == Lower(question)
            hit == \E k \in 1..Len(web_search_keywords) :
                      Contains(web_search_keywords[k], text)
        IN /\ Contains(<<"l", "a", "t", "e", "s", "t">>, text)
                 => needsWeb = "yes"
           /\ hit => needsWeb = "yes"
           /\ ~hit => needsWeb = "no"

\* A question spelling the keyword with a capital was classified yes.
C8_Witness ==
    /\ question = <<"L", "a", "t", "e", "s", "t", " ", "b", "a", "i", "l">>
    /\ needsWeb = "yes"

\* C9 as stated: a query on an initialized chatbot calls the web provider
\* exactly when its text needs the web, at most once, and fills the web slot
\* of its prompt with the placeholder when it does not.
C9_WebIffNeedsWeb ==
    (qOutcome # "none" /\ qInput.inited) =>
        /\ Count(calls, "web") <= 1
        /\ Count(calls, "web") = 1 <=> NeedsWebOf[question]
        /\ (~NeedsWebOf[question] /\ prompt # NoPrompt)
              => prompt.web_context = NoWebSearchPlaceholder

\* C9 amended: a query calls the web provider once when its text needs the
\* web and the query got as far as routing, and not at all otherwise; the
\* prompt of a query that does not need the web has the placeholder.
C9_WebOnlyWhenRouted ==
    qOutcome # "none" =>
        /\ Count(calls, "web") =
              (IF qInput.inited /\ qInput.retrieveOk /\ NeedsWebOf[question]
               THEN 1 ELSE 0)
        /\ (~NeedsWebOf[question] /\ prompt # NoPrompt)
              => prompt.web_context = NoWebSearchPlaceholder

\* A query that needs the web called the provider once and listed two of
\* its results.
C9_Witness ==
    /\ qOutcome = "returned"
    /\ needsWeb = "yes"
    /\ Count(calls, "web") = 1
    /\ prompt.web_context.kind = "results"
    /\ Len(prompt.web_context.items) = WebResultsUsed

\* C10: when the web provider raises, the prompt's web slot holds the error
\* placeholder, the completion is still called once, and the query returns
\* the sanitized completion when the completion succeeds.
C10_WebFailureDegrades ==
    (qOutcome # "none" /\ needsWeb = "yes" /\ qInput.web.raises) =>
        /\ qOutcome = "returned"
        /\ prompt.web_context.kind = "error"
        /\ Count(calls, "complete") = 1
        /\ ~qInput.completion.raises =>
              answer = [kind |-> "answer",
                        text |-> Sanitize(qInput.completion.text)]

\* The web provider raised and the query returned the completion's answer.
C10_Witness ==
    /\ needsWeb = "yes"
    /\ qInput.web.raises
    /\ prompt.web_context.kind = "error"
    /\ answer.kind = "answer"

\* The persisted storage cannot be loaded whole: the directory is gone, or
\* an artifact is missing or unreadable.
StorageIncomplete == ~storageDir \/ ~StoresReadable

C13_RebuildReplacesAndRepersists ==
    (pc = "idle" /\ initResult = "ok" /\ callForce) =>
        /\ initSource = "build"
        /\ loaderCalls = 1
        /\ embedCalls = 1
        /\ queryEngine = index
        /\ SnapshotPersisted
        /\ manifestBuild = index.id

\* C14: with the documents folder missing, initialize finds the index stale
\* and goes to the corpus read, and that read ends the call with an error
\* that is not the error of an empty folder.
C14_MissingDirectoryFailsDistinctly ==
    [][ /\ (~dirExists /\ \E force \in BOOLEAN : StartInitialize(force))
           => (IsStale /\ initSource' = "build" /\ pc' = "process")
        /\ (~dirAtCall /\ ProcessDocuments)
           => ( /\ pc' = "idle"
                /\ initResult' \notin {"ok", "running", "NoDocuments"} ) ]_vars

\* C15: an initialize invoked on a folder without documents goes to the
\* corpus read whatever is persisted, and the read of a folder without
\* documents ends the call with the empty-corpus error before any embedding.
C15_EmptyCorpusFails ==
    [][ /\ ( /\ dirExists
             /\ ProcessAllDocuments = {}
             /\ \E force \in BOOLEAN : StartInitialize(force) )
           => (initSource' = "build" /\ pc' = "process")
        /\ (dirExists /\ ProcessAllDocuments = {} /\ ProcessDocuments)
           => ( /\ pc' = "idle"
                /\ initResult' = "NoDocuments"
                /\ embedCalls' = 0 ) ]_vars

\* C16: each entry of a listed web context carries its result's content
\* whole and unmarked when the content has at most 400 characters, and
\* otherwise the content's first 400 characters followed by "...".
C16_Truncation ==
    (webCall.done /\ webCall.context.kind = "results") =>
        \A i \in DOMAIN webCall.context.items :
           LET content == webCall.results[i].content
               body == webCall.context.items[i].body
           IN  IF Len(content) > ContentBudget
               THEN /\ Len(body) = ContentBudget + Len(TruncationMarker)
                    /\ \A k \in 1..ContentBudget : body[k] = content[k]
                    /\ \A k \in 1..Len(TruncationMarker) :
                          body[ContentBudget + k] = TruncationMarker[k]
               ELSE body = content

\* A context lists a 500-character content cut to 403 characters beside a
\* 300-character content left whole.
C16_Witness ==
    /\ webCall.done
    /\ Len(webCall.context.items) = WebResultsUsed
    /\ Len(webCall.results[1].content) = ContentBudget + 100
    /\ Len(webCall.context.items[1].body) = ContentBudget + 3
    /\ Len(webCall.results[2].content) = ContentBudget - 100
    /\ webCall.context.items[2].body = webCall.results[2].content

\* C20: when the provider returns n > 0 results, the web context lists
\* min(2, n) entries, and entry i, numbered i, is the provider's i-th result;
\* a context never lists more than 2 entries.
C20_FirstTwoResults ==
    /\ webCall.done => Len(webCall.context.items) <= WebResultsUsed
    /\ (webCall.done /\ ~webCall.raises /\ webCall.results # <<>>) =>
          /\ webCall.context.kind = "results"
          /\ Len(webCall.context.items)
                = Min(WebResultsUsed, Len(webCall.results))
          /\ \A i \in DOMAIN webCall.context.items :
                /\ webCall.context.items[i].number = i
                /\ webCall.context.items[i].title = webCall.results[i].title
                /\ webCall.context.items[i].source
                      = webCall.results[i].source

\* The provider returned three results and the context lists the first two.
C20_Witness ==
    /\ webCall.done
    /\ Len(webCall.results) = WebResultsUsed + 1
    /\ Len(webCall.context.items) = WebResultsUsed
    /\ webCall.context.items[1].title = 1
    /\ webCall.context.items[2].title = 2

\* The characters of a text that are neither '*' nor '#', in order.
RECURSIVE WithoutMarkup(_)
WithoutMarkup(text) ==
    IF text = <<>> THEN <<>>
    ELSE IF Head(text) \in {"*", "#"} THEN WithoutMarkup(Tail(text))
    ELSE <<Head(text)>> \o WithoutMarkup(Tail(text))

\* C17: the cleaned-up completion is the completion with every '*' and every
\* '#' deleted and every other character kept in order; no '*' and no '#' is
\* left in it.
C17_SanitizeDeletesMarkup ==
    sanitizeCall.done =>
        /\ sanitizeCall.result = WithoutMarkup(sanitizeCall.text)
        /\ \A i \in DOMAIN sanitizeCall.result :
              sanitizeCall.result[i] \notin {"*", "#"}

\* A text with an asterisk and a hash between two letters came out as the
\* two letters.
C17_Witness ==
    /\ sanitizeCall.done
    /\ sanitizeCall.text = <<"a", "*", "#", "a">>
    /\ sanitizeCall.result = <<"a", "a">>

\* Two spellings of one extension, letter case aside.
SameIgnoringCase(a, b) ==
    /\ Len(a) = Len(b)
    /\ \A k \in DOMAIN a :
          \/ a[k] = b[k]
          \/ \E j \in DOMAIN UpperCase :
                {a[k], b[k]} = {UpperCase[j], LowerCase[j]}

\* A regular file of a supported extension whose extraction gives a text
\* with a character that is not whitespace.
Eligible(entry) ==
    /\ entry.isfile
    /\ \E x \in SupportedExtensions : SameIgnoringCase(entry.ext, x)
    /\ ~entry.extract.raises
    /\ \E k \in DOMAIN entry.extract.text :
          entry.extract.text[k] \notin Whitespace

\* C18: process_all_documents returns, in listing order, exactly one record
\* for each regular file of a supported extension (letter case aside) whose
\* extraction gives non-blank text, carrying that text; every other entry is
\* passed over, whatever stands before or after it.
C18_LoaderKeepsEligibleFiles ==
    loaderCall.done =>
        LET listing == loaderCall.listing
            result == loaderCall.result
        IN  /\ \A i \in DOMAIN listing :
                  Cardinality({k \in DOMAIN result : result[k].filename = i})
                      = IF Eligible(listing[i]) THEN 1 ELSE 0
            /\ \A k \in DOMAIN result :
                  /\ result[k].filename \in DOMAIN listing
                  /\ result[k].text = listing[result[k].filename].extract.text
            /\ \A k \in DOMAIN result : \A j \in DOMAIN result :
                  k < j => result[k].filename < result[j].filename

\* A file whose extraction failed stands before a file spelled .PDF with
\* text, and the loader returned the second alone.
C18_Witness ==
    /\ loaderCall.done
    /\ Len(loaderCall.listing) = 2
    /\ loaderCall.listing[1].isfile
    /\ loaderCall.listing[1].extract.raises
    /\ loaderCall.listing[2].ext = <<".", "P", "D", "F">>
    /\ Len(loaderCall.result) = 1
    /\ loaderCall.result[1].filename = 2

\* C19: a query on an initialized chatbot calls the retriever first, once,
\* with similarity_top_k = 3; the routing decision is only taken once the
\* retriever has returned, and a completion call comes after the retrieval,
\* whichever way the routing went.
C19_RetrievalAlwaysFirst ==
    (qOutcome # "none" /\ qInput.inited) =>
        /\ calls # <<>>
        /\ calls[1] = "retrieve"
        /\ Count(calls, "retrieve") = 1
        /\ retrieveK = 3
        /\ needsWeb # "none" => qInput.retrieveOk
        /\ \A i \in DOMAIN calls : calls[i] = "complete" => i > 1

\* Both a query routed to the web and one kept local retrieved with k = 3
\* before completing: here the routed one.
C19_Witness ==
    /\ qOutcome = "returned"
    /\ qInput.inited
    /\ needsWeb = "yes"
    /\ retrieveK = 3
    /\ calls = <<"retrieve", "web", "complete">>
    /\ answer.kind = "answer"

\* What a query answers given the query engine and what its collaborators
\* do, whatever was asked before.
AnswerGiven(engine, in) ==
    IF engine = NoIndex THEN NoAnswer
    ELSE IF ~in.retrieveOk \/ in.completion.raises THEN ErrorAnswer
    ELSE [kind |-> "answer", text |-> WithoutMarkup(in.completion.text)]

\* C21: a query, whether it raises, returns an error string or returns an
\* answer, leaves the index, the query engine, the storage directory, its
\* artifacts and the manifest as they were, and what it answers is fixed by
\* the query engine, the index and what its collaborators did in this call.
C21_QueryStateless ==
    [][ queryVars' # queryVars =>
          /\ UNCHANGED <<index, queryEngine, storageDir, stores, manifest,
                         manifestBuild>>
          /\ answer' = AnswerGiven(queryEngine, qInput')
          /\ qOutcome' = IF queryEngine = NoIndex
                          THEN "raised" ELSE "returned"
          /\ prompt' # NoPrompt => prompt'.context_str = index ]_vars

\* A query has answered from a persisted, loaded index, and the snapshot is
\* still whole under its manifest.
C21_Witness ==
    /\ qOutcome = "returned"
    /\ answer.kind = "answer"
    /\ answer.text # <<>>
    /\ initSource = "cache"
    /\ queryEngine = index
    /\ prompt.context_str = index
    /\ SnapshotPersisted
    /\ manifestBuild = index.id

\* The turns of h are the first turns of g.
IsPrefix(h, g) == Len(h) <= Len(g) /\ SubSeq(g, 1, Len(h)) = h

\* C22: no script run removes or rewrites a turn of the chat history: the
\* history after a run begins with the history before it.
C22_HistoryAppendOnly ==
    [][IsPrefix(chatHistory, chatHistory')]_vars

\* C22 as the code has it: a script run leaves the history as it was, adds
\* turns at its end, or (Clear Chat History) empties it.
C22_HistoryAppendOrClear ==
    [][IsPrefix(chatHistory, chatHistory') \/ chatHistory' = <<>>]_vars

\* The history is empty again after a question was asked and answered.
C22_Witness ==
    /\ chatHistory = <<>>
    /\ uiQueried = "ready"
    /\ uiPage = "chat"

\* What C26 says of the session chatbot and of query: a chatbot in the
\* session has been initialized, the chat widgets are rendered only with a
\* chatbot in the session, and query was never called on a chatbot without
\* a query engine.
SessionChatbotReady ==
    /\ sessionChatbot.present => sessionChatbot.engine
    /\ uiPage = "chat" => sessionChatbot.present
    /\ uiQueried # "unready"

Alternates(h) ==
    \A i \in DOMAIN h :
        h[i].role = IF i % 2 = 1 THEN "user" ELSE "assistant"

\* C27: a script run that changes the history either empties it or adds
\* exactly two turns at its end, the user's question and then the
\* assistant's answer or apology; so the history alternates user,
\* assistant, starting with user, and ends with an assistant turn.
C27_OneUserThenOneAssistant ==
    [][ /\ chatHistory' # chatHistory =>
              \/ chatHistory' = <<>>
              \/ /\ Len(chatHistory') = Len(chatHistory) + 2
                 /\ IsPrefix(chatHistory, chatHistory')
                 /\ chatHistory'[Len(chatHistory) + 1].content
                       \in UiQuestions
                 /\ chatHistory'[Len(chatHistory) + 2].content
                       \in QueryReplies \cup {Apology}
        /\ Alternates(chatHistory')
        /\ Len(chatHistory') % 2 = 0 ]_vars

\* Two questions were asked and the history holds user, assistant, user,
\* assistant, the second answer being query's error string.
C27_Witness ==
    /\ Len(chatHistory) = 4
    /\ chatHistory[1].role = "user"
    /\ chatHistory[2] = AssistantTurn("answer")
    /\ chatHistory[3].role = "user"
    /\ chatHistory[4] = AssistantTurn("Error processing query")

\* C23: while a call has not got past the embedding, and when it ends
\* there, the index, the query engine, the storage directory, its artifacts
\* and the manifest stay as they were; such an end is a failure reported to
\* the caller, and a failed call ends nowhere else.
C23_FailedInitializeChangesNothing ==
    [][ /\ (pc' \in {"process", "embed"}
            \/ (pc \in {"process", "embed"} /\ pc' = "idle"))
           => UNCHANGED <<index, queryEngine, storageDir, stores, manifest,
                          manifestBuild>>
        /\ (pc \in {"process", "embed"} /\ pc' = "idle")
           => initResult' \in {"NoDocuments", "ProviderError"}
        /\ (pc' = "idle" /\ initResult' \notin {"none", "ok"})
           => pc \in {"idle", "process", "embed"} ]_vars

\* A rebuild on an initialized chatbot has failed in the embedding, and the
\* chatbot still serves the index it had, whose snapshot is still on disk.
C23_Witness ==
    /\ pc = "idle"
    /\ initResult = "ProviderError"
    /\ callForce
    /\ initDone
    /\ index # NoIndex
    /\ queryEngine = index
    /\ SnapshotPersisted
    /\ manifestBuild = index.id

\* C24: a save that failed has not stopped the call: initialize goes on to
\* set up the query engine and then has ended successfully on the index it
\* built; and when the failure came before the manifest was written, the
\* manifest on disk was not stamped by this build.
C24_SaveFailureSwallowed ==
    saveResult \in {"failed", "manifest_failed"} =>
        /\ initSource = "build"
        /\ index # NoIndex
        /\ pc \in {"setup", "idle"}
        /\ pc = "idle" =>
              (initResult = "ok" /\ queryEngine = index /\ initDone)
        /\ saveResult = "failed" => manifestBuild # index.id

\* The second build's save failed at an artifact; the call ended well, the
\* chatbot serves the second build and the manifest is still the first's.
C24_Witness ==
    /\ pc = "idle"
    /\ saveResult = "failed"
    /\ initResult = "ok"
    /\ queryEngine = index
    /\ index.id = 2
    /\ manifestBuild = 1
    /\ manifest # Absent

\* C25: an initialize that loads from the cache loads a build that read the
\* corpus after the last rewrite of a source file; stated here for the
\* loads that find every file strictly older than the manifest.
C25_CacheCoherentUnderRewrites ==
    [][ ( /\ StartInitialize(FALSE)
          /\ initSource' = "cache"
          /\ \A f \in FileNames : files[f] < manifest )
           => index'.id > dirtyUpTo ]_vars

\* C28: the values reached from head are always the sequence obtained by
\* appending on add_node(x) and removing exactly the n-th element on
\* delete_nth_node(n), 1 <= n <= length, the other elements keeping their
\* order.
C28_ListRefinesSequence ==
    ValuesFrom(heap, head) = abstractSeq

\* A delete of the middle element of three has been made: the first and the
\* last are left, in their order.
C28_Witness ==
    /\ lastOp = [op |-> "delete", arg |-> 2, raised |-> FALSE]
    /\ Len(abstractSeq) = 2
    /\ abstractSeq[1] # abstractSeq[2]
    /\ ValuesFrom(heap, head) = abstractSeq

\* C29: delete_nth_node(n) raises exactly when the list is empty, n <= 0 or
\* n is greater than the length, and then leaves the list as it was; for
\* 1 <= n <= length it raises nothing.
C29_DeleteRaisesExactlyOutOfRange ==
    [][ \A n \in Positions :
          DeleteNthNode(n) =>
            LET length == Len(ValuesFrom(heap, head))
                outside == length = 0 \/ n <= 0 \/ n > length
            IN  /\ lastOp'.raised <=> outside
                /\ lastOp'.raised =>
                     /\ head' = head
                     /\ heap' = heap
                     /\ ValuesFrom(heap', head') = ValuesFrom(heap, head)
      ]_vars

\* A delete one past the end of a list of two has raised and both values are
\* still there.
C29_Witness ==
    /\ lastOp = [op |-> "delete", arg |-> 3, raised |-> TRUE]
    /\ Len(ValuesFrom(heap, head)) = 2

====
